---- MODULE Spec2Model ----
(***************************************************************************)
(* A model of the object data-migration core of evo-mcp:                   *)
(*   - copy_object_data     (src/src/evo_mcp/utils/evo_data_utils.py)      *)
(*   - read_pages_from_api  (src/src/evo_mcp/tools/                        *)
(*                           instance_users_admin_tools.py)                *)
(*   - add_users_to_instance, remove_user_from_instance and                *)
(*     update_user_role_in_instance (same file), whose SDK calls change    *)
(*     the collection a walk pages through                                 *)
(*   - extract_data_references (src/src/evo_mcp/utils/evo_data_utils.py)   *)
(*   - evo_create_workspace_snapshot and evo_get_workspace                 *)
(*                          (src/src/evo_mcp/tools/workspace_tools.py)     *)
(*   - get_object_content and get_object_versions                          *)
(*                          (src/src/evo_mcp/tools/data_tools.py)          *)
(*   - two walks, or two copies, running as interleaved tasks              *)
(* Each component has a specification of its own (SpecCopy, SpecPages,     *)
(* SpecScan, SpecSnap, SpecLookup, SpecConc) in which the others rest.     *)
(* SpecRec unfolds the scanner's recursion into single steps, and          *)
(* SpecPagesFair and SpecRec carry the fairness termination needs.         *)
(* Each coroutine is a state machine whose control states are its await    *)
(* points; an action is the completion of the awaited operation together   *)
(* with the code that runs up to the next await.  The SDK collaborators    *)
(* (download/upload contexts, HTTPSource, StorageDestination,              *)
(* ChunkedIOManager, the paged listing endpoint) are the environment: what *)
(* they do on a given call is an input drawn in Init.                      *)
(***************************************************************************)
EXTENDS Naturals, Sequences, FiniteSets

\* ------------------------------------------------------------- bounds
\* Number of distinct blob names an input list may draw from.
MaxBlobs == 2
\* Number of chunks ChunkedIOManager moves for one blob.
ChunkCount == 2
\* Largest backing collection a page walk runs against.
MaxTotal == 4
\* Largest page size requested (limit) or served (the endpoint's own cap).
MaxLimit == 2
\* Largest value of up_to.
MaxUpTo == 3
\* Latest fetch_page call that may raise.
MaxFailAt == 2
\* Largest object definition scanned, in nodes (mappings, sequences, scalars).
MaxNodes == 4
\* Number of times extract_data_references is called on one definition.
MaxScans == 2
\* Largest number of objects a snapshotted workspace lists.
MaxObjects == 2
\* Largest number of workspaces list_workspaces(name=...) returns.
MaxMatches == 2
\* calls that change the instance's users around one page walk
MaxChanges == 1

Blobs == 1..MaxBlobs

VARIABLES
    \* ---- copy_object_data
    data_identifiers,  \* the argument: a sequence of blob names
    plan,              \* environment: what the SDK does for each blob
    cpc,               \* the await point the coroutine is suspended at
    ctxs,              \* download contexts the generator has yet to yield
    cur,               \* download_ctx.name of the current iteration (0: none)
    written,           \* chunks delivered to each blob's destination
    srcOpen,           \* blobs whose HTTPSource is entered and not exited
    dstOpen,           \* blobs whose StorageDestination is entered, not exited
    everSrc,           \* blobs whose HTTPSource was ever entered
    everDst,           \* blobs whose StorageDestination was ever entered
    commitCalls,       \* blobs on whose destination commit() was invoked
    committed,         \* blobs whose commit() took effect
    exc,               \* exception in flight / raised to the caller
    cancelAt,          \* await point at which the first cancellation was delivered
    interrupted,       \* the __aexit__ awaits a cancellation was delivered at
    nPrepDownload,     \* calls of downloaded_object.prepare_data_download
    nPrepUpload        \* calls of target_client.prepare_data_upload

copyVars == <<data_identifiers, plan, cpc, ctxs, cur, written, srcOpen, dstOpen,
              everSrc, everDst, commitCalls, committed, exc, cancelAt,
              interrupted, nPrepDownload, nPrepUpload>>

VARIABLES
    \* ---- read_pages_from_api
    up_to,        \* the argument: <<>> for None, <<k>> for the integer k
    limit,        \* the argument
    users,        \* environment: the instance's users, in listing order
    changes,      \* the walker's position each time the service changed `users`
    page_cap,     \* environment: most items the endpoint serves in one page
                  \* (a cap above `limit` serves what a cap of `limit` does)
    failAt,       \* environment: the fetch call that raises (0: none)
    fetch_error,  \* environment: the exception that call raises
    ppc,          \* "entry", "await" (a func call is in flight), "done", "raised"
    offset,       \* the local `offset`
    ret,          \* the local `ret`
    calls,        \* log of the func calls issued: [offset, limit]
    pages,        \* log of the pages func returned
    returned,     \* <<>> while nothing was returned, <<v>> once v was returned
    perr          \* the exception that left the walker

pageVars == <<up_to, limit, users, changes, page_cap, failAt, fetch_error, ppc, offset,
              ret, calls, pages, returned, perr>>

VARIABLES
    \* ---- extract_data_references
    object_dict,  \* the argument: an object definition (a tree)
    data_values,  \* the list `data_values` of the latest call
    results       \* log of the lists the calls returned

scanVars == <<object_dict, data_values, results>>

VARIABLES
    \* ---- evo_create_workspace_snapshot
    include_data_blobs, \* the argument
    snapshot_name,      \* the argument ("" when not given)
    all_objects,        \* environment: what list_all_objects returns
    outcome,            \* environment: what downloading each object gives
    fatalAt,            \* environment: the setup call that raises ("none": none)
    clock,              \* environment: the time, which passes at every await
    xpc,                \* the await point the tool is suspended at
    ops,                \* log of the operations issued on the collaborators
    timestamp,          \* the local `timestamp`
    snap_name,               \* the local `snapshot_name` after defaulting
    clockReads,         \* number of utcnow() calls
    todo,          \* objects the loop has yet to take
    current,            \* the loop's `obj` (a download is awaited for it)
    objects_snapshot,   \* the local `objects_snapshot`
    manifest,           \* <<>> while nothing was returned, <<m>> once m was
    xerr,               \* the exception that left the tool
    xcancelAt           \* await point at which a cancellation was delivered

snapVars == <<include_data_blobs, snapshot_name, all_objects, outcome, fatalAt,
              clock, xpc, ops, timestamp, snap_name, clockReads, todo, current,
              objects_snapshot, manifest, xerr, xcancelAt>>

VARIABLES
    \* ---- get_object_content, get_object_versions, evo_get_workspace
    lk_tool,    \* the tool called
    lk_id,      \* the argument object_id / workspace_id ("" when not given)
    lk_alt,     \* the argument object_path / workspace_name ("" when not given)
    lk_fault,   \* environment: the awaited call that raises ("none": none)
    lk_found,   \* environment: workspaces of that name list_workspaces returns
    lk_pc,      \* the await point the tool is suspended at
    lk_ops,     \* log of the calls the tool has awaited
    lk_err,     \* the exception that left the tool
    lk_result   \* what the tool returned ("" while nothing)

lookupVars == <<lk_tool, lk_id, lk_alt, lk_fault, lk_found, lk_pc, lk_ops,
                lk_err, lk_result>>

VARIABLES
    \* ---- two invocations of the core running as interleaved tasks
    k_kind,      \* what both tasks run: "walk" or "copy"
    k_args,      \* each task's arguments
    k_pc,        \* the await point each task is suspended at
    k_local,     \* each task's locals (its frame)
    k_out,       \* what each walk returned (<<>> while nothing)
    k_err,       \* the exception that left each task
    k_committed, \* the blobs each copy has committed on the target
    k_overlap    \* a task has stepped while the other was in flight

concVars == <<k_kind, k_args, k_pc, k_local, k_out, k_err, k_committed, k_overlap>>

VARIABLES
    \* ---- extract_data_references, one step of `recurse` at a time
    frames,   \* the call stack of `recurse`: the value each call is on and
              \* the item its loop takes next
    rpc       \* "entry", "running", "returned" ("idle": not called)

recVars == <<frames, rpc>>

vars == <<copyVars, pageVars, scanVars, snapVars, lookupVars, concVars, recVars>>

\* ------------------------------------------------- environment (SDK)
NoExc == "none"
NoCancel == "none"

\* What the SDK does for one blob: nothing unusual, or one of its calls fails.
\* kind "run" fails inside ChunkedIOManager.run after `at` chunks were written.
Faults ==
    { [kind |-> k, at |-> 0] :
        k \in {"none", "upload_raise", "upload_none", "upload_many",
               "src_enter", "dst_enter", "commit"} }
    \cup { [kind |-> "run", at |-> n] : n \in 0..(ChunkCount - 1) }

NoFault == [kind |-> "none", at |-> 0]

\* The exception a failing SDK call raises.
ErrorOf(kind) ==
    CASE kind = "upload_raise" -> "UploadPrepareError"
      [] kind = "src_enter"    -> "SourceOpenError"
      [] kind = "dst_enter"    -> "DestinationOpenError"
      [] kind = "run"          -> "ChunkWriteError"
      [] kind = "commit"       -> "CommitRejected"
      [] OTHER                 -> NoExc

\* prepare_data_download yields one download context per identifier, in order.
PrepareDataDownload(ids) == ids

\* Number of upload contexts prepare_data_upload([name]) yields.
UploadContexts(name) ==
    CASE plan[name].kind = "upload_none" -> 0
      [] plan[name].kind = "upload_many" -> 2
      [] OTHER                           -> 1

\* Input lists: sequences of distinct blob names.
IdLists ==
    { s \in UNION { [1..n -> Blobs] : n \in 0..MaxBlobs } :
        \A i, j \in DOMAIN s : i # j => s[i] # s[j] }

Range(s) == { s[i] : i \in DOMAIN s }

\* A step of a copy leaves the page walker's state alone, and conversely.
CopyFrame ==
    UNCHANGED <<pageVars, scanVars, snapVars, lookupVars, concVars, recVars>>

PagesFrame ==
    UNCHANGED <<copyVars, scanVars, snapVars, lookupVars, concVars, recVars>>

ScanFrame ==
    UNCHANGED <<copyVars, pageVars, snapVars, lookupVars, concVars, recVars>>

SnapFrame ==
    UNCHANGED <<copyVars, pageVars, scanVars, lookupVars, concVars, recVars>>

LookupFrame ==
    UNCHANGED <<copyVars, pageVars, scanVars, snapVars, concVars, recVars>>

ConcFrame ==
    UNCHANGED <<copyVars, pageVars, scanVars, snapVars, lookupVars, recVars>>

RecFrame == UNCHANGED <<copyVars, pageVars, snapVars, lookupVars, concVars>>

\* `recurse` is not running.
RecIdle == frames = <<>> /\ rpc = "idle"

Tasks == {"a", "b"}

\* A frame's locals before the function body has run.
NoLocals ==
    [offset |-> 0, ret |-> <<>>, ctxs |-> <<>>, cur |-> 0, open |-> {}, exc |-> NoExc]

NoArgs == [up_to |-> <<>>, limit |-> 1, ids |-> <<>>]

\* No tasks run.
ConcIdle ==
    /\ k_kind = "walk"
    /\ k_args = [t \in Tasks |-> NoArgs]
    /\ k_pc = [t \in Tasks |-> "idle"]
    /\ k_local = [t \in Tasks |-> NoLocals]
    /\ k_out = [t \in Tasks |-> <<>>]
    /\ k_err = [t \in Tasks |-> NoExc]
    /\ k_committed = [t \in Tasks |-> {}]
    /\ k_overlap = FALSE

\* The single page walk is not running.
PagesAtRest ==
    /\ up_to = <<>> /\ limit = 1
    /\ failAt = 0 /\ fetch_error = NoExc
    /\ ppc = "idle" /\ offset = 0 /\ ret = <<>>
    /\ calls = <<>> /\ pages = <<>> /\ returned = <<>> /\ perr = NoExc
    /\ changes = <<>>

\* No page walk takes place.
PagesIdle == PagesAtRest /\ users = <<>> /\ page_cap = 1

\* No definition is scanned.
ScanIdle ==
    /\ object_dict = [t |-> "int", v |-> "5", keys |-> <<>>, kids |-> <<>>]
    /\ data_values = <<>>
    /\ results = <<>>

\* A snapshot name: the caller's, or "snapshot_" followed by a timestamp.
Name(text, stamp) == [text |-> text, stamp |-> stamp]

\* The loop variable `obj` outside the loop.
NoObject == [id |-> 0, version_id |-> 0]

\* No snapshot is taken.
SnapIdle ==
    /\ include_data_blobs = FALSE /\ snapshot_name = ""
    /\ all_objects = <<>> /\ outcome = <<>> /\ fatalAt = "none"
    /\ clock = 0 /\ xpc = "idle" /\ ops = <<>>
    /\ timestamp = 0 /\ snap_name = Name("", 0) /\ clockReads = 0
    /\ todo = <<>> /\ current = NoObject /\ objects_snapshot = <<>>
    /\ manifest = <<>> /\ xerr = NoExc /\ xcancelAt = NoCancel

\* No lookup is made.
LookupIdle ==
    /\ lk_tool = "get_object_content" /\ lk_id = "" /\ lk_alt = ""
    /\ lk_fault = "none" /\ lk_found = 0 /\ lk_pc = "idle"
    /\ lk_ops = <<>> /\ lk_err = NoExc /\ lk_result = ""

\* The single copy is not running.
CopyAtRest ==
    /\ data_identifiers = <<>>
    /\ cpc = "idle"
    /\ ctxs = <<>> /\ cur = 0
    /\ written = [b \in Blobs |-> 0]
    /\ srcOpen = {} /\ dstOpen = {} /\ everSrc = {} /\ everDst = {}
    /\ commitCalls = {} /\ committed = {}
    /\ exc = NoExc /\ cancelAt = NoCancel /\ interrupted = {}
    /\ nPrepDownload = 0 /\ nPrepUpload = 0

\* No copy takes place.
CopyIdle == CopyAtRest /\ plan = [b \in Blobs |-> NoFault]

\* ------------------------------------------------ copy_object_data
\* `if not data_identifiers: return`
EmptyGuard_Never(ids) == FALSE

EmptyGuard(ids) == ids = <<>>

\* `upload_ctx, = [...]` unpacks a list of exactly one element.
UnpackOne_AtLeastOne(n) == n >= 1

UnpackOne(n) == n = 1

\* Where the `async with` routes an exception raised at await point p:
\* nothing is entered while the upload is prepared or the source is being
\* entered; a failure entering the destination exits the source; a failure in
\* the body exits the destination and then the source.
UnwindTo_LeakSource(p) ==
    CASE p \in {"prepare_data_upload", "src_enter", "dst_enter"} -> "raised"
      [] p \in {"run", "commit"}                                 -> "dst_exit"

UnwindTo_SkipDstExit(p) ==
    CASE p \in {"prepare_data_upload", "src_enter"} -> "raised"
      [] p \in {"dst_enter", "run", "commit"}       -> "src_exit"

UnwindTo_CommitInFinally(p) ==
    CASE p \in {"prepare_data_upload", "src_enter"} -> "raised"
      [] p = "dst_enter"                            -> "src_exit"
      [] p = "run"                                  -> "commit"
      [] p = "commit"                               -> "dst_exit"

UnwindTo(p) ==
    CASE p \in {"prepare_data_upload", "src_enter"} -> "raised"
      [] p = "dst_enter"                            -> "src_exit"
      [] p \in {"run", "commit"}                    -> "dst_exit"

\* Where control goes when a blob's `async with` has been left with
\* exception e in flight: the loop has no handler, so an exception ends the call.
AfterBlob_SwallowAndContinue(e) == "next"

AfterBlob_ContinueOnCommitError(e) ==
    IF e \in {NoExc, "CommitRejected"} THEN "next" ELSE "raised"

AfterBlob_ContinueOnStreamError(e) ==
    IF e \in {NoExc, "ChunkWriteError"} THEN "next" ELSE "raised"

AfterBlob(e) == IF e = NoExc THEN "next" ELSE "raised"

CopyInit ==
    /\ PagesIdle
    /\ ScanIdle
    /\ SnapIdle
    /\ LookupIdle
    /\ ConcIdle
    /\ RecIdle
    /\ data_identifiers \in IdLists
    /\ plan \in [Blobs -> Faults]
    /\ \A b \in Blobs \ Range(data_identifiers) : plan[b] = NoFault
    /\ cpc = "entry"
    /\ ctxs = <<>>
    /\ cur = 0
    /\ written = [b \in Blobs |-> 0]
    /\ srcOpen = {} /\ dstOpen = {}
    /\ everSrc = {} /\ everDst = {}
    /\ commitCalls = {} /\ committed = {}
    /\ exc = NoExc
    /\ cancelAt = NoCancel
    /\ interrupted = {}
    /\ nPrepDownload = 0
    /\ nPrepUpload = 0

\* The head of the `for` statement: take the next download context and start
\* the async iteration of prepare_data_upload([download_ctx.name]); with no
\* context left the function returns.
ForNext(remaining) ==
    IF remaining = <<>>
    THEN /\ cpc' = "done"
         /\ ctxs' = <<>>
         /\ cur' = 0
         /\ nPrepUpload' = nPrepUpload
    ELSE /\ cpc' = "prepare_data_upload"
         /\ ctxs' = Tail(remaining)
         /\ cur' = Head(remaining)
         /\ nPrepUpload' = nPrepUpload + 1

\* An exception e raised at the current await point.
Raise(e) ==
    /\ exc' = e
    /\ cpc' = UnwindTo(cpc)

\* The call: the empty-list guard, then prepare_data_download and the first
\* iteration of the loop.
Call ==
    /\ CopyFrame
    /\ cpc = "entry"
    /\ IF EmptyGuard(data_identifiers)
       THEN /\ cpc' = "done"
            /\ UNCHANGED <<ctxs, cur, nPrepDownload, nPrepUpload>>
       ELSE /\ nPrepDownload' = nPrepDownload + 1
            /\ ForNext(PrepareDataDownload(data_identifiers))
    /\ UNCHANGED <<interrupted, data_identifiers, plan, written, srcOpen, dstOpen, everSrc,
                   everDst, commitCalls, committed, exc, cancelAt>>

\* prepare_data_upload has been iterated to its end and the result unpacked.
UploadPrepared ==
    /\ CopyFrame
    /\ cpc = "prepare_data_upload"
    /\ IF plan[cur].kind = "upload_raise"
       THEN Raise(ErrorOf("upload_raise"))
       ELSE IF ~UnpackOne(UploadContexts(cur))
       THEN Raise("ValueError")
       ELSE /\ cpc' = "src_enter"
            /\ exc' = exc
    /\ UNCHANGED <<interrupted, data_identifiers, plan, ctxs, cur, written, srcOpen, dstOpen,
                   everSrc, everDst, commitCalls, committed, cancelAt,
                   nPrepDownload, nPrepUpload>>

\* HTTPSource.__aenter__ has returned or raised.
SrcEntered ==
    /\ CopyFrame
    /\ cpc = "src_enter"
    /\ IF plan[cur].kind = "src_enter"
       THEN /\ Raise(ErrorOf("src_enter"))
            /\ UNCHANGED <<srcOpen, everSrc>>
       ELSE /\ srcOpen' = srcOpen \cup {cur}
            /\ everSrc' = everSrc \cup {cur}
            /\ cpc' = "dst_enter"
            /\ exc' = exc
    /\ UNCHANGED <<interrupted, data_identifiers, plan, ctxs, cur, written, dstOpen, everDst,
                   commitCalls, committed, cancelAt, nPrepDownload, nPrepUpload>>

\* StorageDestination.__aenter__ has returned or raised.
DstEntered ==
    /\ CopyFrame
    /\ cpc = "dst_enter"
    /\ IF plan[cur].kind = "dst_enter"
       THEN /\ Raise(ErrorOf("dst_enter"))
            /\ UNCHANGED <<dstOpen, everDst>>
       ELSE /\ dstOpen' = dstOpen \cup {cur}
            /\ everDst' = everDst \cup {cur}
            /\ cpc' = "run"
            /\ exc' = exc
    /\ UNCHANGED <<interrupted, data_identifiers, plan, ctxs, cur, written, srcOpen, everSrc,
                   commitCalls, committed, cancelAt, nPrepDownload, nPrepUpload>>

\* One chunk of ChunkedIOManager().run(src, dst): the chunk is written, or the
\* write raises; after the last chunk run returns and dst.commit() is invoked.
RunChunk ==
    /\ CopyFrame
    /\ cpc = "run"
    /\ IF plan[cur].kind = "run" /\ plan[cur].at = written[cur]
       THEN /\ Raise(ErrorOf("run"))
            /\ UNCHANGED written
       ELSE /\ written' = [written EXCEPT ![cur] = @ + 1]
            /\ cpc' = IF written[cur] + 1 = ChunkCount THEN "commit" ELSE "run"
            /\ exc' = exc
    /\ UNCHANGED <<interrupted, data_identifiers, plan, ctxs, cur, srcOpen, dstOpen, everSrc,
                   everDst, commitCalls, committed, cancelAt, nPrepDownload,
                   nPrepUpload>>

\* dst.commit() was invoked and has returned or raised; either way the body of
\* the `async with` is left and the destination is exited next.
CommitReturned ==
    /\ CopyFrame
    /\ cpc = "commit"
    /\ commitCalls' = commitCalls \cup {cur}
    /\ IF plan[cur].kind = "commit"
       THEN /\ exc' = ErrorOf("commit")
            /\ UNCHANGED committed
       ELSE /\ committed' = committed \cup {cur}
            /\ exc' = exc
    /\ cpc' = "dst_exit"
    /\ UNCHANGED <<interrupted, data_identifiers, plan, ctxs, cur, written, srcOpen, dstOpen,
                   everSrc, everDst, cancelAt, nPrepDownload, nPrepUpload>>

\* StorageDestination.__aexit__: the destination descriptor is released.
DstExited ==
    /\ CopyFrame
    /\ cpc = "dst_exit"
    /\ dstOpen' = dstOpen \ {cur}
    /\ cpc' = "src_exit"
    /\ UNCHANGED <<interrupted, data_identifiers, plan, ctxs, cur, written, srcOpen, everSrc,
                   everDst, commitCalls, committed, exc, cancelAt,
                   nPrepDownload, nPrepUpload>>

\* HTTPSource.__aexit__: the source descriptor is released; then the exception
\* in flight, if any, leaves the function, or the loop goes on.
SrcExited ==
    /\ CopyFrame
    /\ cpc = "src_exit"
    /\ srcOpen' = srcOpen \ {cur}
    /\ IF AfterBlob(exc) = "raised"
       THEN /\ cpc' = "raised"
            /\ UNCHANGED <<ctxs, cur, nPrepUpload>>
       ELSE ForNext(ctxs)
    /\ UNCHANGED <<interrupted, data_identifiers, plan, written, dstOpen, everSrc, everDst,
                   commitCalls, committed, exc, cancelAt, nPrepDownload>>

\* The task is cancelled while suspended: CancelledError is raised at the
\* await point, in place of whatever exception was in flight.  A task
\* cancelled before its first step raises without running the body.  A
\* cancellation that arrives while commit() is awaited leaves it open whether
\* the commit took effect.  One that arrives while an __aexit__ is awaited
\* interrupts that release: whether the descriptor was released by then is up
\* to the SDK; the exits still to come are made all the same.  The task can be
\* cancelled again at every await it reaches while unwinding.
Cancel ==
    /\ CopyFrame
    /\ cpc \in {"entry", "prepare_data_upload", "src_enter", "dst_enter", "run",
                "commit", "dst_exit", "src_exit"}
    /\ cancelAt' = IF cancelAt = NoCancel THEN cpc ELSE cancelAt
    /\ exc' = "CancelledError"
    /\ CASE cpc = "entry" ->
              /\ cpc' = "raised"
              /\ UNCHANGED <<ctxs, cur, srcOpen, dstOpen, commitCalls, committed,
                             interrupted, nPrepUpload>>
         [] cpc = "dst_exit" ->
              /\ cpc' = "src_exit"
              /\ interrupted' = interrupted \cup {cpc}
              /\ \E released \in BOOLEAN :
                   dstOpen' = IF released THEN dstOpen \ {cur} ELSE dstOpen
              /\ UNCHANGED <<ctxs, cur, srcOpen, commitCalls, committed, nPrepUpload>>
         [] cpc = "src_exit" ->
              /\ interrupted' = interrupted \cup {cpc}
              /\ \E released \in BOOLEAN :
                   srcOpen' = IF released THEN srcOpen \ {cur} ELSE srcOpen
              /\ IF AfterBlob("CancelledError") = "raised"
                 THEN /\ cpc' = "raised"
                      /\ UNCHANGED <<ctxs, cur, nPrepUpload>>
                 ELSE ForNext(ctxs)
              /\ UNCHANGED <<dstOpen, commitCalls, committed>>
         [] OTHER ->
              /\ cpc' = UnwindTo(cpc)
              /\ IF cpc = "commit"
                 THEN /\ commitCalls' = commitCalls \cup {cur}
                      /\ \E took \in BOOLEAN :
                           committed' = IF took THEN committed \cup {cur} ELSE committed
                 ELSE UNCHANGED <<commitCalls, committed>>
              /\ UNCHANGED <<ctxs, cur, srcOpen, dstOpen, interrupted, nPrepUpload>>
    /\ UNCHANGED <<data_identifiers, plan, written, everSrc, everDst, nPrepDownload>>

CopyNext ==
    \/ Call
    \/ UploadPrepared
    \/ SrcEntered
    \/ DstEntered
    \/ RunChunk
    \/ CommitReturned
    \/ DstExited
    \/ SrcExited
    \/ Cancel

SpecCopy == CopyInit /\ [][CopyNext]_vars

\* The blobs a call on `ids` commits when it runs to its end undisturbed: the
\* loop commits blob after blob and ends at the first one whose transfer raises.
RECURSIVE CopyResult(_)
CopyResult(ids) ==
    IF ids = <<>> THEN {}
    ELSE IF plan[Head(ids)].kind = "none"
         THEN {Head(ids)} \cup CopyResult(Tail(ids))
         ELSE {}

\* ------------------------------------------- properties: copy_object_data
Terminal == cpc \in {"done", "raised"}

Without(ids, b) == SelectSeq(ids, LAMBDA x : x # b)

Pos(b) == CHOOSE i \in DOMAIN data_identifiers : data_identifiers[i] = b

Earlier == { b \in Range(data_identifiers) : cur # 0 /\ Pos(b) < Pos(cur) }

Later == { b \in Range(data_identifiers) : cur # 0 /\ Pos(b) > Pos(cur) }

\* Errors raised by the destination (StorageDestination) for a blob.
DstRejections == {"DestinationOpenError", "ChunkWriteError", "CommitRejected"}

\* The recursive summary agrees with the state machine on undisturbed runs.
CopyResultAgrees ==
    (Terminal /\ cancelAt = NoCancel) => committed = CopyResult(data_identifiers)

\* C1: commit is invoked on a blob's destination only after that blob's chunked
\* transfer completed without error: whenever commit is being invoked, was
\* invoked or took effect for a blob, all of its chunks were written and no
\* exception was in flight when commit was reached; a blob whose transfer
\* failed partway never has commit invoked.
C1_CommitOnlyAfterFullTransfer ==
    /\ cpc = "commit" => (written[cur] = ChunkCount /\ exc = NoExc)
    /\ \A b \in commitCalls \cup committed :
         written[b] = ChunkCount /\ plan[b].kind # "run"

\* C1 witness: a transfer failed after at least one chunk, the call has raised,
\* and commit was not invoked for that blob.
C1_Witness ==
    /\ cpc = "raised"
    /\ exc = "ChunkWriteError"
    /\ written[cur] >= 1
    /\ cur \notin commitCalls

\* C2: every descriptor acquired for a blob is released on every exit path
\* (completion, a failing stream, a failing commit, a failing acquisition of
\* the second descriptor, a cancellation of the transfer): when the call has
\* returned or raised no source and no destination is open, save a
\* descriptor whose own release was cut short by a cancellation; and a
\* destination whose streaming did not complete never had commit invoked.
C2_DescriptorsReleased ==
    Terminal =>
        /\ "src_exit" \notin interrupted => srcOpen = {}
        /\ "dst_exit" \notin interrupted => dstOpen = {}
        /\ \A b \in everDst : written[b] < ChunkCount => b \notin commitCalls

\* C2 witness: acquiring the destination failed after the source had been
\* acquired, and the call has raised.
C2_Witness ==
    /\ cpc = "raised"
    /\ exc = "DestinationOpenError"
    /\ cur \in everSrc

\* The await points of a blob's transfer, up to and including commit.
TransferPoints == {"prepare_data_upload", "src_enter", "dst_enter", "run", "commit"}

\* A cancellation cut short the release of a descriptor, which the SDK left
\* open: the call has ended with a descriptor still open.
InterruptedRelease ==
    /\ cpc = "raised"
    /\ cancelAt \in TransferPoints
    /\ interrupted # {}
    /\ srcOpen \cup dstOpen # {}

\* C3: a call cancelled at a suspension point of a blob's transfer before
\* commit was invoked never commits that blob, no blob is ever committed with
\* partial content, a cancellation always leaves the call as CancelledError,
\* and once a cancellation of the transfer has left the call its descriptors
\* are released, save a descriptor whose own release was cut short by a
\* further cancellation.
C3_AbortLeavesNoPartialCommit ==
    /\ \A b \in committed : written[b] = ChunkCount
    /\ cancelAt \in {"prepare_data_upload", "src_enter", "dst_enter", "run"} =>
         (cur \notin commitCalls /\ cur \notin committed)
    /\ (cancelAt # NoCancel /\ cpc = "raised") => exc = "CancelledError"
    /\ (cancelAt \in TransferPoints /\ cpc = "raised") =>
         /\ "src_exit" \notin interrupted => srcOpen = {}
         /\ "dst_exit" \notin interrupted => dstOpen = {}

\* C3 witness: the call was cancelled between chunks of a blob, with part of
\* the blob written, and the cancellation has reached the caller.
C3_Witness ==
    /\ cpc = "raised"
    /\ cancelAt = "run"
    /\ written[cur] >= 1
    /\ written[cur] < ChunkCount

\* C4: a call with an empty identifier list returns at once: it calls neither
\* prepare_data_download nor prepare_data_upload, opens no descriptor and
\* invokes no transfer and no commit; the only other way out is a
\* cancellation delivered before the body first ran.
C4_EmptyListIsNoOp ==
    data_identifiers = <<>> =>
        /\ nPrepDownload = 0 /\ nPrepUpload = 0
        /\ everSrc = {} /\ everDst = {}
        /\ commitCalls = {} /\ committed = {}
        /\ \A b \in Blobs : written[b] = 0
        /\ cancelAt = NoCancel => (cpc \in {"entry", "done"} /\ exc = NoExc)
        /\ cancelAt # NoCancel => (cpc = "raised" /\ cancelAt = "entry")

\* C4 witness: the call on an empty list has returned.
C4_Witness == data_identifiers = <<>> /\ cpc = "done"

\* C5 as stated: when the destination rejects one blob, every other blob of
\* the list ends committed exactly when it would have been committed by a call
\* on the list without the rejected blob.
C5_OthersUnaffected ==
    (cpc = "raised" /\ exc \in DstRejections) =>
        \A b \in Range(data_identifiers) \ {cur} :
            (b \in committed) <=> (b \in CopyResult(Without(data_identifiers, cur)))

\* C5 as amended: when the destination rejects one blob, that error is the
\* exception in flight, unchanged, and it only unwinds the blob's descriptors
\* and leaves the call; the rejected blob is not committed, the blobs before it
\* in the list stay fully copied and committed, and the blobs after it are
\* never attempted (no descriptor, no chunk, no commit).
C5_RejectionEndsTheCall ==
    exc \in DstRejections =>
        /\ cpc \in {"dst_exit", "src_exit", "raised"}
        /\ exc = ErrorOf(plan[cur].kind)
        /\ cur \notin committed
        /\ \A b \in Earlier : b \in committed /\ written[b] = ChunkCount
        /\ \A b \in Later :
             /\ b \notin everSrc \cup everDst \cup commitCalls \cup committed
             /\ written[b] = 0

\* C5 witness: the destination rejected a blob, the call has raised, and a
\* later blob of the list was left unattempted.
C5_Witness ==
    /\ cpc = "raised"
    /\ exc \in DstRejections
    /\ Later # {}

\* ---------------------------------------------- read_pages_from_api
Min(a, b) == IF a <= b THEN a ELSE b

\* The backing collection as the service lists it now, and its size.
Collection == users

total == Len(users)

\* The roles of the instance (list_instance_roles), the first being the one
\* a user has unless told otherwise.
Roles == {"Evo user", "Evo admin"}

DefaultRole == "Evo user"

\* An item of the collection: a user of the instance.
User(i, r) == [user_id |-> i, roles |-> r]

\* The collections a call can find: n distinct users in listing order.
Listings == { [i \in 1..n |-> User(i, DefaultRole)] : n \in 0..MaxTotal }

\* func(offset=o, limit=l): the window of the collection starting after the
\* first o items, of at most l items and at most the endpoint's own page cap.
FetchPage(o, l) == SubSeq(users, o + 1, Min(o + Min(l, page_cap), Len(users)))

\* `ret.extend(page.items())`
Extend_Overwrite(acc, page) == page

Extend(acc, page) == acc \o page

\* `if len(page) == 0 or len(page) < limit: break`
ShortPage_OnlyEmpty(page, l) == Len(page) = 0

ShortPage_FullPageEnds(page, l) == Len(page) = 0 \/ Len(page) <= l

ShortPage(page, l) == Len(page) = 0 \/ Len(page) < l

\* `if up_to and len(ret) >= up_to: break`; None and 0 are both falsy.
Truthy_ZeroCounts(u) == u # <<>>

Truthy(u) == u # <<>> /\ u[1] # 0

CapReached(u, acc) == Truthy(u) /\ Len(acc) >= u[1]

\* `offset += limit`
NextOffset_SkipsOne(o, l) == o + l + 1

NextOffset_Stuck(o, l) == o

NextOffset(o, l) == o + l

\* A func call that raises: nothing catches it, so the exception leaves the
\* walker, which returns nothing; its locals go with its frame.
FetchRaised_ReturnPartial(e, acc) ==
    [pc |-> "done", err |-> NoExc, returned |-> <<acc>>, ret |-> acc]

FetchRaised(e, acc) ==
    [pc |-> "raised", err |-> e, returned |-> <<>>, ret |-> <<>>]

UpToValues == {<<>>} \cup { <<k>> : k \in 0..MaxUpTo }

PagesInit ==
    /\ CopyIdle
    /\ ScanIdle
    /\ SnapIdle
    /\ LookupIdle
    /\ ConcIdle
    /\ RecIdle
    /\ up_to \in UpToValues
    /\ limit \in 1..MaxLimit
    /\ users \in Listings
    /\ changes = <<>>
    /\ page_cap \in 1..limit
    /\ failAt \in 0..MaxFailAt
    /\ fetch_error \in {"TimeoutError", "ServiceError"}
    /\ failAt = 0 => fetch_error = "TimeoutError"
    /\ ppc = "entry"
    /\ offset = 0
    /\ ret = <<>>
    /\ calls = <<>>
    /\ pages = <<>>
    /\ returned = <<>>
    /\ perr = NoExc

\* The walker is called: `offset = 0`, `ret = []`, and the first func call is
\* issued and awaited.
Invoke ==
    /\ PagesFrame
    /\ ppc = "entry"
    /\ offset' = 0
    /\ ret' = <<>>
    /\ calls' = Append(calls, [offset |-> 0, limit |-> limit])
    /\ ppc' = "await"
    /\ UNCHANGED <<up_to, limit, users, changes, page_cap, failAt, fetch_error, pages,
                   returned, perr>>

\* The awaited func call returns a page: the rest of the loop body runs, and
\* either the walker returns `ret` or the next func call is issued and awaited.
PageReturned ==
    /\ PagesFrame
    /\ ppc = "await"
    /\ failAt # Len(calls)
    /\ LET page == FetchPage(offset, limit)
           acc  == Extend(ret, page)
       IN /\ pages' = Append(pages, page)
          /\ ret' = acc
          /\ IF ShortPage(page, limit) \/ CapReached(up_to, acc)
             THEN /\ ppc' = "done"
                  /\ returned' = <<acc>>
                  /\ UNCHANGED <<offset, calls>>
             ELSE /\ offset' = NextOffset(offset, limit)
                  /\ calls' = Append(calls, [offset |-> NextOffset(offset, limit),
                                            limit |-> limit])
                  /\ ppc' = "await"
                  /\ UNCHANGED returned
    /\ UNCHANGED <<up_to, limit, users, changes, page_cap, failAt, fetch_error, perr>>

\* The awaited func call raises.
PageRaised ==
    /\ PagesFrame
    /\ ppc = "await"
    /\ failAt = Len(calls)
    /\ LET out == FetchRaised(fetch_error, ret)
       IN /\ ppc' = out.pc
          /\ perr' = out.err
          /\ returned' = out.returned
          /\ ret' = out.ret
    /\ UNCHANGED <<up_to, limit, users, changes, page_cap, failAt, fetch_error, offset,
                   calls, pages>>

\* A user who is not in the instance.
NewUser == MaxTotal + 1 + Len(changes)

\* The listing with user u at position i + 1, the listing without the user
\* whose id is u, and the listing with that user's roles replaced.
Insert(s, i, u) == SubSeq(s, 1, i) \o <<u>> \o SubSeq(s, i + 1, Len(s))

Remove(s, u) == SelectSeq(s, LAMBDA x : x.user_id # u)

SetRoles(s, u, r) ==
    [i \in DOMAIN s |-> IF s[i].user_id = u THEN User(u, r) ELSE s[i]]

Members == { users[i].user_id : i \in DOMAIN users }

\* The tools that change the instance's users share no state with a walk.
\* Each awaits get_workspace_client() and then one SDK call, and what a walk
\* can see of it is the moment, somewhere within that second await, at which
\* the service applies the call for one user: the users become `next`,
\* whatever the walker is doing at that moment, and the walker's position at
\* that moment is recorded.  The tool's call, its awaits before and after
\* that moment and its return change nothing here, and neither does a
\* request that leaves the users as they are (an invitation, a user who is
\* a member already, a user_id that is None or no member's, the roles the
\* user has).
ServiceApplies(next) ==
    /\ Len(changes) < MaxChanges
    /\ next # users
    /\ users' = next
    /\ changes' = Append(changes, ppc)
    /\ UNCHANGED <<up_to, limit, page_cap, failAt, fetch_error, ppc, offset, ret,
                   calls, pages, returned, perr>>

\* add_users_to_instance(user_emails, role_ids): while the tool awaits
\* workspace_client.add_users_to_instance(users=users) the service makes a
\* user of user_emails a member with the roles role_ids, listed wherever its
\* ordering puts a new member; the users of one call become members one by
\* one.  The calls followed here pass DefaultRole for role_ids.
AddUsersToInstance ==
    /\ PagesFrame
    /\ \E role_ids \in {DefaultRole}, i \in 0..Len(users) :
         ServiceApplies(Insert(users, i, User(NewUser, role_ids)))

\* remove_user_from_instance(user_email, user_id): while the tool awaits
\* workspace_client.remove_instance_user(user_id=user_id) the service removes
\* the member user_id; user_email does not reach the SDK.
RemoveInstanceUser ==
    /\ PagesFrame
    /\ \E user_id \in Members : ServiceApplies(Remove(users, user_id))

\* update_user_role_in_instance(user_email, user_id, new_role_ids): while the
\* tool awaits workspace_client.update_instance_user_roles(user_id=user_id,
\* roles=new_role_ids) the service replaces the roles of the member user_id;
\* user_email does not reach the SDK.
UpdateInstanceUserRoles ==
    /\ PagesFrame
    /\ \E user_id \in Members, new_role_ids \in Roles :
         ServiceApplies(SetRoles(users, user_id, new_role_ids))

PagesNext ==
    \/ Invoke
    \/ PageReturned
    \/ PageRaised
    \/ AddUsersToInstance
    \/ RemoveInstanceUser
    \/ UpdateInstanceUserRoles

SpecPages == PagesInit /\ [][PagesNext]_vars

\* The walks whose func is a faithful window and whose calls all return.
PagesFairInit == PagesInit /\ page_cap >= limit /\ failAt = 0

\* The walker's own steps on such a walk.
WalkNext ==
    \/ Invoke
    \/ PageReturned

PagesFairNext ==
    \/ Invoke
    \/ PageReturned
    \/ AddUsersToInstance
    \/ RemoveInstanceUser
    \/ UpdateInstanceUserRoles

\* The event loop resumes the walker whenever its awaited call has completed;
\* nothing obliges anyone to change the instance's users.
SpecPagesFair == PagesFairInit /\ [][PagesFairNext]_vars /\ WF_vars(WalkNext)

\* --------------------------------------- properties: read_pages_from_api
RECURSIVE Flatten(_)
Flatten(ps) == IF ps = <<>> THEN <<>> ELSE Head(ps) \o Flatten(Tail(ps))

\* func is a faithful offset/limit window: the endpoint serves full pages.
Faithful == page_cap >= limit

\* The collection the walk began on is the collection still: whenever the
\* service changed the instance's users, whenever the tool that asked for it
\* was called, the walker had not yet issued its first func call.
Undisturbed == \A i \in DOMAIN changes : changes[i] = "entry"

\* C6 as stated (taken where the cap check is active, k >= 1): over a faithful
\* window on a non-empty collection, a walk with up_to = k returns exactly
\* min(k, total) items.
C6_ExactlyMinOfCapAndTotal ==
    ( /\ ppc = "done" /\ Faithful /\ Undisturbed
      /\ total >= 1 /\ up_to # <<>> /\ up_to[1] >= 1 ) =>
        Len(returned[1]) = Min(up_to[1], total)

\* C7 as stated: with up_to = k set, a further func call is issued only while
\* the accumulator holds fewer than k items.
C7_NoFetchOnceCapHeld ==
    (ppc = "await" /\ Len(calls) >= 2 /\ up_to # <<>>) => Len(ret) < up_to[1]

\* What the code does for C7: the cap check is skipped for up_to = 0, and for
\* every k >= 1 no func call is issued once the accumulator holds k items.
CapHeldForPositive ==
    (ppc = "await" /\ up_to # <<>> /\ up_to[1] >= 1) => Len(ret) < up_to[1]

\* The roles of a user were replaced after the page listing the user had been
\* returned: the walk has returned the user with the roles of before.
DisturbedWalkIsStale ==
    /\ ppc = "done" /\ up_to = <<>> /\ Faithful
    /\ changes = <<"await">>
    /\ \E i \in DOMAIN users :
         /\ users[i].roles # DefaultRole
         /\ User(users[i].user_id, DefaultRole) \in Range(returned[1])

\* A user was removed while the walk awaited a later page: the listing
\* shifted under the walker's offset, and the walk has returned without a
\* user who was in the instance all along.
DisturbedWalkSkips ==
    /\ ppc = "done" /\ up_to = <<>> /\ Faithful
    /\ changes = <<"await">>
    /\ \A i \in DOMAIN users :
         users[i].user_id <= MaxTotal /\ users[i].roles = DefaultRole
    /\ \E u \in Range(users) : u \notin Range(returned[1])

\* A user was added while the walk awaited a later page, and the walk has
\* returned a user twice.
DisturbedWalkRepeats ==
    /\ ppc = "done" /\ up_to = <<>> /\ Faithful
    /\ changes = <<"await">>
    /\ \E i, j \in DOMAIN returned[1] : i # j /\ returned[1][i] = returned[1][j]

\* C8: a returned page of length 0 or of length below limit is the last one:
\* no func call follows it, its items are in the result, and the walker has
\* returned the concatenation of all pages; a first page of zero items gives an
\* empty result after one call.
C8_ShortPageEndsTheWalk ==
    \A i \in 1..Len(pages) :
        (Len(pages[i]) = 0 \/ Len(pages[i]) < limit) =>
            /\ i = Len(pages)
            /\ Len(calls) = i
            /\ ppc = "done"
            /\ returned = <<Flatten(pages)>>

\* C8 witness: after at least one full page a short, non-empty page was
\* returned and the walk has ended.
C8_Witness ==
    /\ ppc = "done"
    /\ Len(pages) >= 2
    /\ Len(pages[Len(pages)]) >= 1
    /\ Len(pages[Len(pages)]) < limit

\* C9: with up_to unset the walk ends at the first page shorter than limit,
\* every page before it being full, and the walker returns the concatenation
\* of all pages in fetch order, each item of a page once, with one func call
\* per page; over a faithful window on a collection nobody changes meanwhile
\* that is the whole collection in order (total \div limit full pages and the
\* final shorter one).
C9_FullConcatenation ==
    (ppc = "done" /\ up_to = <<>>) =>
        /\ returned = <<Flatten(pages)>>
        /\ Len(pages) = Len(calls)
        /\ \A i \in 1..Len(pages) : (Len(pages[i]) < limit) <=> (i = Len(pages))
        /\ (Faithful /\ Undisturbed) =>
             /\ returned = <<Collection>>
             /\ Len(calls) = (total \div limit) + 1

\* C9 witness: a walk of two full pages and a final shorter page over a
\* collection nobody changed has returned.
C9_Witness ==
    /\ ppc = "done"
    /\ up_to = <<>>
    /\ Faithful /\ Undisturbed
    /\ Len(pages) = 3
    /\ Len(pages[1]) = 2 /\ Len(pages[2]) = 2

\* C10: when a func call raises, no call follows it (no retry, no further
\* fetch), the walker ends raising that same error, returns nothing and keeps
\* none of the items accumulated from earlier pages.
C10_FetchErrorPropagates ==
    /\ failAt > 0 => Len(calls) <= failAt
    /\ (failAt > 0 /\ Len(calls) = failAt /\ ppc # "await") => ppc = "raised"
    /\ ppc = "raised" =>
         /\ perr = fetch_error
         /\ returned = <<>>
         /\ ret = <<>>
         /\ Len(calls) = failAt

\* C10 witness: a func call raised after earlier pages had been accumulated.
C10_Witness ==
    /\ ppc = "raised"
    /\ Len(pages) >= 1
    /\ Len(Flatten(pages)) >= 1


\* C11: within one walk the func calls carry offsets 0, limit, 2*limit, ... in
\* that order and always the same limit, so no offset is skipped or asked for
\* twice; and a call is issued only once the previous one has returned, so at
\* most one call is outstanding, and only while the walker awaits it.
C11_SequentialOffsets ==
    /\ \A n \in 1..Len(calls) :
         calls[n].offset = (n - 1) * limit /\ calls[n].limit = limit
    /\ Len(calls) = Len(pages) + (IF ppc \in {"await", "raised"} THEN 1 ELSE 0)
    /\ ppc = "await" => offset = calls[Len(calls)].offset

\* C11 witness: a third call, at offset 2*limit with limit 2, is outstanding.
C11_Witness ==
    /\ ppc = "await"
    /\ limit = 2
    /\ Len(calls) = 3
    /\ calls[3].offset = 4

\* Errors of descriptor acquisition, streaming and commit.
BlobFailures ==
    {"SourceOpenError", "DestinationOpenError", "ChunkWriteError", "CommitRejected"}

\* C20: when a blob fails (acquiring a descriptor, streaming, or commit) the
\* error leaves the call at that first failure and nothing is retried: one
\* upload preparation was made per blob attempted so far, no later blob is
\* attempted, the blobs committed before stay committed, and the call ends
\* raising the failing blob's own error.
C20_FirstFailureEndsTheCall ==
    exc \in BlobFailures =>
        /\ cpc \in {"dst_exit", "src_exit", "raised"}
        /\ nPrepDownload = 1
        /\ nPrepUpload = Pos(cur)
        /\ Earlier \subseteq committed
        /\ \A b \in Later : b \notin everSrc \cup everDst \cup commitCalls
        /\ committed \subseteq Earlier
        /\ cpc = "raised" => exc = ErrorOf(plan[cur].kind)

\* C20 witness: the second blob of the list failed while streaming after the
\* first had been committed, and the call has raised.
C20_Witness ==
    /\ cpc = "raised"
    /\ exc = "ChunkWriteError"
    /\ Earlier # {}
    /\ Earlier \subseteq committed


\* -------------------------------------------- extract_data_references
\* An object definition is a tree of nodes [t, v, keys, kids]: t is "dict",
\* "list", "str" or "int" (any scalar that is not a string); v is the value of
\* a string; kids are the values of a dict (keys[i] the key of kids[i], in the
\* dict's iteration order) or the items of a list.
Str(s) == [t |-> "str", v |-> s, keys |-> <<>>, kids |-> <<>>]

Int == [t |-> "int", v |-> "5", keys |-> <<>>, kids |-> <<>>]

Dict(ks, vs) == [t |-> "dict", v |-> "", keys |-> ks, kids |-> vs]

List(vs) == [t |-> "list", v |-> "", keys |-> <<>>, kids |-> vs]

Keys == {"data", "a"}

Scalars == {Str("blob-1"), Str("blob-2"), Int}

\* The keys of a dict of m entries: m distinct keys in iteration order.
KeySeqs(m) ==
    { ks \in [1..m -> Keys] : \A i, j \in 1..m : i # j => ks[i] # ks[j] }

RECURSIVE TreesOfSize(_), ForestsOfSize(_)
\* The sequences of trees that hold n nodes in all.
ForestsOfSize(n) ==
    IF n = 0 THEN {<<>>}
    ELSE UNION { { <<t>> \o f : t \in TreesOfSize(k), f \in ForestsOfSize(n - k) } :
                 k \in 1..n }

\* The trees of exactly n nodes.
TreesOfSize(n) ==
    (IF n = 1 THEN Scalars ELSE {})
    \cup { List(f) : f \in ForestsOfSize(n - 1) }
    \cup UNION { { Dict(ks, f) : ks \in KeySeqs(Len(f)) } : f \in ForestsOfSize(n - 1) }

Trees == UNION { TreesOfSize(n) : n \in 1..MaxNodes }

\* `data_values = []`: every call starts from a list of its own.
NewDataValues(previous) == <<>>

\* `if key == 'data' and isinstance(value, str)`
IsDataRef_KeyOnly(key, value) == key = "data"

IsDataRef(key, value) == key = "data" /\ value.t = "str"

\* `data_values.append(value)`
Emit_Dedup(acc, s) == IF s \in Range(acc) THEN acc ELSE Append(acc, s)

Emit(acc, s) == Append(acc, s)

RECURSIVE Recurse(_, _), RecurseItems(_, _, _)
\* The loop over obj.items() (a dict) or over obj (a list), from entry i on.
RecurseItems(obj, i, acc) ==
    IF i > Len(obj.kids) THEN acc
    ELSE IF obj.t = "dict" /\ IsDataRef(obj.keys[i], obj.kids[i])
         THEN RecurseItems(obj, i + 1, Emit(acc, obj.kids[i].v))
         ELSE RecurseItems(obj, i + 1, Recurse(obj.kids[i], acc))

\* `recurse(obj)`: dicts and lists are walked, anything else is left alone.
Recurse(obj, acc) ==
    IF obj.t \in {"dict", "list"} THEN RecurseItems(obj, 1, acc) ELSE acc

ScanInit ==
    /\ CopyIdle
    /\ PagesIdle
    /\ SnapIdle
    /\ LookupIdle
    /\ ConcIdle
    /\ RecIdle
    /\ object_dict \in Trees
    /\ data_values = <<>>
    /\ results = <<>>

\* One call of extract_data_references(object_dict).
ScanCall ==
    /\ ScanFrame
    /\ Len(results) < MaxScans
    /\ data_values' = Recurse(object_dict, NewDataValues(data_values))
    /\ results' = Append(results, data_values')
    /\ UNCHANGED object_dict

ScanNext == ScanCall

SpecScan == ScanInit /\ [][ScanNext]_vars

\* ------------------------------------ properties: extract_data_references
\* The positions of a tree: the index paths from the root to its nodes.
RECURSIVE PathsOf(_)
PathsOf(t) ==
    {<<>>} \cup UNION { { <<i>> \o q : q \in PathsOf(t.kids[i]) } : i \in DOMAIN t.kids }

RECURSIVE NodeAt(_, _)
NodeAt(t, p) == IF p = <<>> THEN t ELSE NodeAt(t.kids[Head(p)], Tail(p))

Front(p) == SubSeq(p, 1, Len(p) - 1)

\* The node at p is the value of a dict key named "data".
IsDataValue(t, p) ==
    /\ p # <<>>
    /\ NodeAt(t, Front(p)).t = "dict"
    /\ NodeAt(t, Front(p)).keys[p[Len(p)]] = "data"

\* p comes before q in pre-order document order.
Before(p, q) ==
    \/ Len(p) < Len(q) /\ SubSeq(q, 1, Len(p)) = p
    \/ \E i \in 1..Min(Len(p), Len(q)) :
         /\ SubSeq(p, 1, i - 1) = SubSeq(q, 1, i - 1)
         /\ p[i] < q[i]

RECURSIVE InOrder(_)
InOrder(ps) ==
    IF ps = {} THEN <<>>
    ELSE LET first == CHOOSE p \in ps : \A q \in ps \ {p} : Before(p, q)
         IN <<first>> \o InOrder(ps \ {first})

\* The strings that are values of "data" keys of t, in document order.
DataStringPaths(t) ==
    { p \in PathsOf(t) : IsDataValue(t, p) /\ NodeAt(t, p).t = "str" }

DataStrings(t) ==
    LET ps == InOrder(DataStringPaths(t))
    IN [i \in 1..Len(ps) |-> NodeAt(t, ps[i]).v]

\* s occurs in r as a run of consecutive elements.
IsInfix(s, r) ==
    \E k \in 0..(Len(r) - Len(s)) : SubSeq(r, k + 1, k + Len(s)) = s

\* C12: the call returns exactly the strings that are values of "data" keys,
\* in pre-order document order, duplicates kept, and nothing else.
C12_DataStringsInDocumentOrder ==
    results # <<>> => results[1] = DataStrings(object_dict)

\* C12 witness: {"a": {"data": "blob-1"}, "data": "blob-1"} was scanned and
\* gave the same reference twice.
C12_Witness ==
    /\ object_dict = Dict(<<"a", "data">>,
                          <<Dict(<<"data">>, <<Str("blob-1")>>), Str("blob-1")>>)
    /\ results # <<>>
    /\ results[1] = <<"blob-1", "blob-1">>

\* C13: a "data" key whose value is not a string contributes no reference of
\* its own and its value is walked like any other: the references found inside
\* it are in the result, consecutively and in order, and the result holds one
\* entry per string-valued "data" key and no more.
C13_NonStringDataIsRecursedInto ==
    results # <<>> =>
        /\ Len(results[1]) = Cardinality(DataStringPaths(object_dict))
        /\ \A p \in PathsOf(object_dict) :
             (IsDataValue(object_dict, p) /\ NodeAt(object_dict, p).t # "str") =>
                 IsInfix(DataStrings(NodeAt(object_dict, p)), results[1])

\* C13 witness: {"data": {"data": "blob-1"}} was scanned and gave ["blob-1"].
C13_Witness ==
    /\ object_dict = Dict(<<"data">>, <<Dict(<<"data">>, <<Str("blob-1")>>)>>)
    /\ results = <<<<"blob-1">>>>


\* -------------------------------------- evo_create_workspace_snapshot
\* The version id list_all_objects reports for object i.
ListedVersion(i) == i + i

\* What list_all_objects returns for a workspace of n objects.
Listing(n) == [i \in 1..n |-> [id |-> i, version_id |-> ListedVersion(i)]]

\* Definitions a downloaded object may have.
SampleDefinitions ==
    { Dict(<<>>, <<>>),
      Dict(<<"data">>, <<Str("blob-1")>>),
      Dict(<<"a", "data">>, <<List(<<Dict(<<"data">>, <<Str("blob-2")>>)>>), Str("blob-1")>>) }

\* What downloading an object gives: its definition, or download_object_by_id
\* raises, or as_dict() raises.
Outcomes ==
    { [kind |-> "ok", def |-> t] : t \in SampleDefinitions }
    \cup { [kind |-> k, def |-> Int] : k \in {"DownloadError", "AsDictError"} }

SetupCalls ==
    {"ensure_initialized", "get_object_client", "get_workspace", "list_all_objects"}

\* The operation issued on a collaborator.
Op(op, id, version) == [op |-> op, id |-> id, version |-> version]

\* `object_client.download_object_by_id(obj.id, version=obj.version_id)`
ObjectFetch_Latest(obj) == Op("download_object_by_id", obj.id, 0)

ObjectFetch_Upload(obj) == Op("upload_object", obj.id, obj.version_id)

ObjectFetch(obj) == Op("download_object_by_id", obj.id, obj.version_id)

\* `except Exception`: CancelledError is a BaseException and is not caught.
Caught_Nothing(e) == FALSE

Caught_Everything(e) == TRUE

Caught(e) == e # "CancelledError"

\* `snapshot_name or f"snapshot_{timestamp}"`
DefaultedName(given, ts) == IF given # "" THEN Name(given, 0) ELSE Name("snapshot_", ts)

\* The summary's "timestamp": the local `timestamp`, whatever the time is now.
SummaryTimestamp_ReadAgain(ts, now) == now

SummaryTimestamp(ts, now) == ts

\* `obj_info = {...}` and `obj_info["data_blobs"] = ...`
ObjInfo(obj) ==
    [id |-> obj.id, version_id |-> obj.version_id,
     has_data_blobs |-> FALSE, data_blobs |-> <<>>]

WithBlobs(info, refs) ==
    [info EXCEPT !.has_data_blobs = TRUE, !.data_blobs = refs]

\* An exception of a setup call: nothing around lines 234-239 catches it.
Propagates_EnumerationTolerated(call) == call # "list_all_objects"

Propagates(call) == TRUE

\* The handler's `obj_info["data_blobs"] = []`, after which the object is
\* recorded like any other.
AfterFailure_Skip(acc, info) == acc

AfterFailure(acc, info) == Append(acc, WithBlobs(info, <<>>))

\* `snapshot = {...}` and the returned mapping.
Manifest(nm, ts, now, objs) ==
    [snapshot_name |-> nm,
     snapshot_timestamp |-> ts,
     object_count |-> Len(objs),
     objects |-> objs,
     summary_name |-> nm,
     summary_timestamp |-> SummaryTimestamp(ts, now),
     total_objects |-> Len(objs)]

SnapInit ==
    /\ CopyIdle
    /\ PagesIdle
    /\ ScanIdle
    /\ LookupIdle
    /\ ConcIdle
    /\ RecIdle
    /\ include_data_blobs \in BOOLEAN
    /\ snapshot_name \in {"", "nightly"}
    /\ fatalAt \in {"none"} \cup SetupCalls
    /\ \E n \in 0..MaxObjects :
         /\ all_objects = Listing(n)
         /\ outcome \in [1..n -> Outcomes]
    /\ fatalAt # "none" => all_objects = <<>>
    /\ ~include_data_blobs =>
         \A i \in DOMAIN outcome : outcome[i] = [kind |-> "ok", def |-> Dict(<<>>, <<>>)]
    /\ clock = 0
    /\ xpc = "entry"
    /\ ops = <<>>
    /\ timestamp = 0
    /\ snap_name = Name("", 0)
    /\ clockReads = 0
    /\ todo = <<>>
    /\ current = NoObject
    /\ objects_snapshot = <<>>
    /\ manifest = <<>>
    /\ xerr = NoExc
    /\ xcancelAt = NoCancel

\* An exception leaves the tool: nothing is returned.
SnapRaise(e) ==
    /\ xpc' = "raised"
    /\ xerr' = e
    /\ clock' = clock + 1

\* A setup call has returned and the next one is issued and awaited.
SnapProceed(next) ==
    /\ xpc' = next
    /\ ops' = Append(ops, Op(next, 0, 0))
    /\ clock' = clock + 1
    /\ UNCHANGED xerr

\* The tool is called: `await ensure_initialized()`.
SnapInvoke ==
    /\ SnapFrame
    /\ xpc = "entry"
    /\ xpc' = "ensure_initialized"
    /\ ops' = Append(ops, Op("ensure_initialized", 0, 0))
    /\ UNCHANGED <<include_data_blobs, snapshot_name, all_objects, outcome,
                   fatalAt, clock, timestamp, snap_name, clockReads, todo,
                   current, objects_snapshot, manifest, xerr, xcancelAt>>

\* One of ensure_initialized, get_object_client and get_workspace has returned
\* or raised.
SetupReturned ==
    /\ SnapFrame
    /\ xpc \in {"ensure_initialized", "get_object_client", "get_workspace"}
    /\ IF fatalAt = xpc /\ Propagates(xpc)
       THEN SnapRaise(xpc) /\ UNCHANGED ops
       ELSE SnapProceed(CASE xpc = "ensure_initialized" -> "get_object_client"
                          [] xpc = "get_object_client"  -> "get_workspace"
                          [] xpc = "get_workspace"      -> "list_all_objects")
    /\ UNCHANGED <<include_data_blobs, snapshot_name, all_objects, outcome,
                   fatalAt, timestamp, snap_name, clockReads, todo, current,
                   objects_snapshot, manifest, xcancelAt>>

\* The head of `for obj in all_objects` with `acc` collected so far, at time
\* `now`, under timestamp ts and name nm: without include_data_blobs no
\* iteration awaits anything, so the loop runs to its end and the manifest is
\* returned; with it, the next object's download is issued and awaited.
SnapLoop(rest, acc, ts, nm, now) ==
    IF include_data_blobs /\ rest # <<>>
    THEN /\ xpc' = "download"
         /\ current' = Head(rest)
         /\ todo' = Tail(rest)
         /\ objects_snapshot' = acc
         /\ ops' = Append(ops, ObjectFetch(Head(rest)))
         /\ UNCHANGED manifest
    ELSE LET objs == acc \o [i \in 1..Len(rest) |-> ObjInfo(rest[i])]
         IN /\ xpc' = "done"
            /\ current' = NoObject
            /\ todo' = <<>>
            /\ objects_snapshot' = objs
            /\ manifest' = <<Manifest(nm, ts, now, objs)>>
            /\ UNCHANGED ops

\* list_all_objects has returned or raised; on return the timestamp is read,
\* the name defaulted and the loop entered.
ObjectsListed ==
    /\ SnapFrame
    /\ xpc = "list_all_objects"
    /\ IF fatalAt = xpc /\ Propagates(xpc)
       THEN /\ SnapRaise(xpc)
            /\ UNCHANGED <<ops, timestamp, snap_name, clockReads, todo, current,
                           objects_snapshot, manifest>>
       ELSE LET now == clock + 1
            IN /\ clock' = now
               /\ timestamp' = now
               /\ clockReads' = clockReads + 1
               /\ snap_name' = DefaultedName(snapshot_name, now)
               /\ SnapLoop(all_objects, <<>>, now, DefaultedName(snapshot_name, now), now)
               /\ UNCHANGED xerr
    /\ UNCHANGED <<include_data_blobs, snapshot_name, all_objects, outcome,
                   fatalAt, xcancelAt>>

\* download_object_by_id has returned or raised for the current object: the
\* references are extracted, or the handler records an empty list, or the
\* exception is not one the handler catches and leaves the tool.
Downloaded ==
    /\ SnapFrame
    /\ xpc = "download"
    /\ LET got == outcome[current.id]
           now == clock + 1
       IN IF got.kind = "ok" \/ Caught(got.kind)
          THEN LET refs == Recurse(got.def, NewDataValues(<<>>))
                   acc  == IF got.kind = "ok"
                           THEN Append(objects_snapshot, WithBlobs(ObjInfo(current), refs))
                           ELSE AfterFailure(objects_snapshot, ObjInfo(current))
               IN /\ clock' = now
                  /\ SnapLoop(todo, acc, timestamp, snap_name, now)
                  /\ UNCHANGED xerr
          ELSE /\ SnapRaise(got.kind)
               /\ UNCHANGED <<ops, todo, current, objects_snapshot, manifest>>
    /\ UNCHANGED <<include_data_blobs, snapshot_name, all_objects, outcome,
                   fatalAt, timestamp, snap_name, clockReads, xcancelAt>>

\* The task is cancelled while suspended: CancelledError is raised at the
\* await point; at a download it passes through the handler unless caught.
SnapCancel ==
    /\ SnapFrame
    /\ xpc \in SetupCalls \cup {"download"}
    /\ xcancelAt' = xpc
    /\ IF xpc = "download" /\ Caught("CancelledError")
       THEN /\ clock' = clock + 1
            /\ SnapLoop(todo, AfterFailure(objects_snapshot, ObjInfo(current)),
                        timestamp, snap_name, clock + 1)
            /\ UNCHANGED xerr
       ELSE /\ SnapRaise("CancelledError")
            /\ UNCHANGED <<ops, todo, current, objects_snapshot, manifest>>
    /\ UNCHANGED <<include_data_blobs, snapshot_name, all_objects, outcome,
                   fatalAt, timestamp, snap_name, clockReads>>

SnapNext ==
    \/ SnapInvoke
    \/ SetupReturned
    \/ ObjectsListed
    \/ Downloaded
    \/ SnapCancel

SpecSnap == SnapInit /\ [][SnapNext]_vars


\* ------------------------- properties of evo_create_workspace_snapshot
Returned == manifest[1]

DownloadsIssued == { i \in DOMAIN ops : ops[i].op = "download_object_by_id" }

Failing == { i \in DOMAIN outcome : outcome[i].kind # "ok" }

\* C15: with include_data_blobs, an object whose download or as_dict() fails
\* is still listed, with an empty data_blobs list; every other object is
\* listed with the data strings of its definition; and no such failure leaves
\* the tool: only a failing setup call or a cancellation does.
C15_ObjectFailureIsLocal ==
    /\ xpc = "raised" => xerr \in SetupCalls \cup {"CancelledError"}
    /\ xpc = "done" /\ include_data_blobs =>
         /\ Len(Returned.objects) = Len(all_objects)
         /\ \A i \in DOMAIN all_objects :
              /\ Returned.objects[i].id = all_objects[i].id
              /\ Returned.objects[i].has_data_blobs
              /\ Returned.objects[i].data_blobs =
                   IF i \in Failing THEN <<>> ELSE DataStrings(outcome[i].def)

C15_Witness ==
    /\ xpc = "done" /\ include_data_blobs
    /\ Len(all_objects) > 1
    /\ outcome[1].kind = "DownloadError"
    /\ Returned.objects[1].data_blobs = <<>>
    /\ Len(Returned.objects[Len(all_objects)].data_blobs) > 1

\* C16: utcnow() is read at most once, before any download is issued and
\* before any object is recorded; once the loop is entered it has been read
\* exactly once; and the manifest returned carries that one reading as
\* snapshot_timestamp, as the summary's timestamp and in the default name,
\* however much time has passed since.
C16_OneTimestamp ==
    /\ clockReads \in {0, 1}
    /\ clockReads = 0 => DownloadsIssued = {} /\ objects_snapshot = <<>>
    /\ xpc \in {"download", "done"} => clockReads = 1 /\ timestamp <= clock
    /\ xpc = "done" =>
         /\ Returned.snapshot_timestamp = timestamp
         /\ Returned.summary_timestamp = timestamp
         /\ Returned.summary_name = Returned.snapshot_name
         /\ snapshot_name = "" => Returned.snapshot_name = Name("snapshot_", timestamp)
         /\ snapshot_name # "" => Returned.snapshot_name.text = snapshot_name

C16_Witness ==
    /\ xpc = "done" /\ snapshot_name = ""
    /\ Cardinality(DownloadsIssued) > 1
    /\ timestamp < clock
    /\ Returned.summary_timestamp = timestamp

ReadOperations == {"get_workspace", "list_all_objects", "download_object_by_id"}

ContextOperations == {"ensure_initialized", "get_object_client"}

\* C17: whatever the path, every operation the tool has issued is one of the
\* reads get_workspace, list_all_objects and download_object_by_id, or the
\* acquisition of the context and of the client.
C17_OnlyReads ==
    \A i \in DOMAIN ops : ops[i].op \in ReadOperations \cup ContextOperations

C17_Witness ==
    /\ xpc = "done"
    /\ Cardinality(DownloadsIssued) > 1
    /\ Failing = DOMAIN all_objects
    /\ { ops[i].op : i \in DOMAIN ops } = ReadOperations \cup ContextOperations


\* ------------ get_object_content, get_object_versions, evo_get_workspace
ObjectLookups == {"get_object_content", "get_object_versions"}

Lookups == ObjectLookups \cup {"evo_get_workspace"}

\* The remote call a tool makes for the argument it was given.
ById(tool) ==
    CASE tool = "get_object_content"  -> "download_object_by_id"
      [] tool = "get_object_versions" -> "list_versions_by_id"
      [] tool = "evo_get_workspace"   -> "get_workspace"

ByAlt(tool) ==
    CASE tool = "get_object_content"  -> "download_object_by_path"
      [] tool = "get_object_versions" -> "list_versions_by_path"
      [] tool = "evo_get_workspace"   -> "list_workspaces"

RemoteCalls == { ById(t) : t \in Lookups } \cup { ByAlt(t) : t \in Lookups }

\* `if object_id: ... elif object_path: ... else: raise ValueError(...)`:
\* the call the chain selects, or "ValueError".
Selected(tool, id, alt) ==
    IF id # "" THEN ById(tool)
    ELSE IF alt # "" THEN ByAlt(tool)
    ELSE "ValueError"

\* What precedes the chain: `await ensure_initialized()` and, in the object
\* tools, `await evo_context.get_object_client(UUID(workspace_id))`.
Preamble(tool) ==
    IF tool \in ObjectLookups
    THEN <<"ensure_initialized", "get_object_client">>
    ELSE <<"ensure_initialized">>

LookupInit ==
    /\ CopyIdle
    /\ PagesIdle
    /\ ScanIdle
    /\ SnapIdle
    /\ ConcIdle
    /\ RecIdle
    /\ lk_tool \in Lookups
    /\ lk_id \in {"", "id"}
    /\ lk_alt \in {"", "alt"}
    /\ lk_fault \in {"none", "remote"} \cup Range(Preamble(lk_tool))
    /\ lk_found \in 0..MaxMatches
    /\ (lk_tool # "evo_get_workspace" \/ lk_id # "" \/ lk_alt = "") => lk_found = 0
    /\ lk_pc = "entry"
    /\ lk_ops = <<>>
    /\ lk_err = NoExc
    /\ lk_result = ""

LookupRaise(e) ==
    /\ lk_pc' = "raised"
    /\ lk_err' = e
    /\ UNCHANGED <<lk_ops, lk_result>>

LookupAwait(call) ==
    /\ lk_pc' = call
    /\ lk_ops' = Append(lk_ops, call)
    /\ UNCHANGED <<lk_err, lk_result>>

\* After n calls of the preamble have returned: the next one is awaited, or
\* the chain is reached and selects a remote call or raises.
LookupContinue(n) ==
    IF n < Len(Preamble(lk_tool))
    THEN LookupAwait(Preamble(lk_tool)[n + 1])
    ELSE LET sel == Selected(lk_tool, lk_id, lk_alt)
         IN IF sel = "ValueError" THEN LookupRaise("ValueError") ELSE LookupAwait(sel)

\* The tool is called.
LookupInvoke ==
    /\ LookupFrame
    /\ lk_pc = "entry"
    /\ LookupContinue(0)
    /\ UNCHANGED <<lk_tool, lk_id, lk_alt, lk_fault, lk_found>>

\* A call of the preamble has returned or raised.
PreambleReturned ==
    /\ LookupFrame
    /\ lk_pc \in Range(Preamble(lk_tool))
    /\ IF lk_fault = lk_pc
       THEN LookupRaise(lk_pc)
       ELSE LookupContinue(Len(lk_ops))
    /\ UNCHANGED <<lk_tool, lk_id, lk_alt, lk_fault, lk_found>>

\* The remote call has returned or raised; evo_get_workspace by name takes the
\* first workspace of that name and raises ValueError when there is none.
RemoteReturned ==
    /\ LookupFrame
    /\ lk_pc \in RemoteCalls
    /\ IF lk_fault = "remote"
       THEN LookupRaise("RemoteError")
       ELSE IF lk_pc = "list_workspaces" /\ lk_found = 0
       THEN LookupRaise("ValueError")
       ELSE /\ lk_pc' = "done"
            /\ lk_result' = lk_pc
            /\ UNCHANGED <<lk_ops, lk_err>>
    /\ UNCHANGED <<lk_tool, lk_id, lk_alt, lk_fault, lk_found>>

LookupNext ==
    \/ LookupInvoke
    \/ PreambleReturned
    \/ RemoteReturned

SpecLookup == LookupInit /\ [][LookupNext]_vars

\* ------------------------------------------- properties of the lookups
Malformed == lk_id = "" /\ lk_alt = ""

\* C18: a lookup given neither argument is rejected with ValueError and has
\* awaited nothing by then: no initialization, no client acquisition, no
\* remote call.
C18_RejectedBeforeAnyIO ==
    Malformed /\ lk_pc # "entry" =>
        /\ lk_pc = "raised"
        /\ lk_err = "ValueError"
        /\ lk_ops = <<>>

\* What the code does guarantee for a lookup given neither argument: it never
\* returns, it makes no remote call, each call of the preamble is awaited at
\* most once, and when the preamble goes through the error is ValueError.
MalformedNeverLooksUp ==
    Malformed =>
        /\ lk_pc # "done"
        /\ Range(lk_ops) \cap RemoteCalls = {}
        /\ Len(lk_ops) <= Len(Preamble(lk_tool))
        /\ lk_pc = "raised" /\ lk_fault \notin Range(Preamble(lk_tool)) =>
             lk_err = "ValueError"


\* ------------------------------------- two invocations as interleaved tasks
\* Where the locals of task t live: every call has a frame of its own.
Slot_Shared(t) == "a"

Slot(t) == t

\* The other task is suspended in the middle of its call.
InFlight(t) == \E u \in Tasks \ {t} : k_pc[u] \notin {"entry", "done", "raised"}

\* Task t moves to await point p with locals loc.
Resume(t, p, loc) ==
    /\ k_pc' = [k_pc EXCEPT ![t] = p]
    /\ k_local' = [k_local EXCEPT ![Slot(t)] = loc]
    /\ k_overlap' = (k_overlap \/ InFlight(t))
    /\ UNCHANGED <<k_kind, k_args>>

\* The head of the `for` statement of task t's copy, with `rest` to go.
TaskForNext(t, loc, rest) ==
    IF rest = <<>>
    THEN Resume(t, "done", [loc EXCEPT !.ctxs = <<>>, !.cur = 0])
    ELSE Resume(t, "prepare_data_upload",
                [loc EXCEPT !.ctxs = Tail(rest), !.cur = Head(rest)])

\* An exception e raised at task t's current await point.
TaskRaise(t, loc, e) == Resume(t, UnwindTo(k_pc[t]), [loc EXCEPT !.exc = e])

ConcInit ==
    /\ ScanIdle
    /\ SnapIdle
    /\ LookupIdle
    /\ RecIdle
    /\ CopyAtRest
    /\ PagesAtRest
    /\ k_kind \in {"walk", "copy"}
    /\ IF k_kind = "walk"
       THEN /\ users \in Listings
            /\ page_cap \in 1..MaxLimit
            /\ plan = [b \in Blobs |-> NoFault]
            /\ k_args \in [Tasks -> { [up_to |-> u, limit |-> l, ids |-> <<>>] :
                                        u \in UpToValues, l \in 1..MaxLimit }]
       ELSE /\ users = <<>>
            /\ page_cap = 1
            /\ plan \in [Blobs -> Faults]
            /\ \A b \in Blobs : plan[b].at = 0
            /\ k_args \in [Tasks -> { [up_to |-> <<>>, limit |-> 1, ids |-> i] :
                                        i \in IdLists }]
            /\ k_args["a"].ids = [b \in Blobs |-> b]
    /\ k_pc = [t \in Tasks |-> "entry"]
    /\ k_local = [t \in Tasks |-> NoLocals]
    /\ k_out = [t \in Tasks |-> <<>>]
    /\ k_err = [t \in Tasks |-> NoExc]
    /\ k_committed = [t \in Tasks |-> {}]
    /\ k_overlap = FALSE

\* A task calls read_pages_from_api: `offset = 0`, `ret = []`, and the first
\* func call is awaited.
WalkInvoke ==
    \E t \in Tasks :
        /\ ConcFrame
        /\ k_kind = "walk" /\ k_pc[t] = "entry"
        /\ Resume(t, "await", [k_local[Slot(t)] EXCEPT !.offset = 0, !.ret = <<>>])
        /\ UNCHANGED <<k_out, k_err, k_committed>>

\* A task's awaited func call returns a page.
WalkPageReturned ==
    \E t \in Tasks :
        /\ ConcFrame
        /\ k_kind = "walk" /\ k_pc[t] = "await"
        /\ LET loc  == k_local[Slot(t)]
               page == FetchPage(loc.offset, k_args[t].limit)
               acc  == Extend(loc.ret, page)
           IN IF ShortPage(page, k_args[t].limit) \/ CapReached(k_args[t].up_to, acc)
              THEN /\ Resume(t, "done", [loc EXCEPT !.ret = acc])
                   /\ k_out' = [k_out EXCEPT ![t] = <<acc>>]
              ELSE /\ Resume(t, "await",
                             [loc EXCEPT !.ret = acc,
                                         !.offset = NextOffset(loc.offset, k_args[t].limit)])
                   /\ UNCHANGED k_out
        /\ UNCHANGED <<k_err, k_committed>>

\* A task calls copy_object_data.
CopyInvoke ==
    \E t \in Tasks :
        /\ ConcFrame
        /\ k_kind = "copy" /\ k_pc[t] = "entry"
        /\ IF EmptyGuard(k_args[t].ids)
           THEN Resume(t, "done", k_local[Slot(t)])
           ELSE TaskForNext(t, k_local[Slot(t)], PrepareDataDownload(k_args[t].ids))
        /\ UNCHANGED <<k_out, k_err, k_committed>>

\* A task's prepare_data_upload has been iterated and the result unpacked.
CopyUploadPrepared ==
    \E t \in Tasks :
        /\ ConcFrame
        /\ k_kind = "copy" /\ k_pc[t] = "prepare_data_upload"
        /\ LET loc == k_local[Slot(t)]
           IN IF plan[loc.cur].kind = "upload_raise"
              THEN TaskRaise(t, loc, ErrorOf("upload_raise"))
              ELSE IF ~UnpackOne(UploadContexts(loc.cur))
              THEN TaskRaise(t, loc, "ValueError")
              ELSE Resume(t, "src_enter", loc)
        /\ k_err' = [k_err EXCEPT ![t] = IF k_pc'[t] = "raised" THEN k_local'[Slot(t)].exc ELSE @]
        /\ UNCHANGED <<k_out, k_committed>>

\* A task's source or destination has been entered, or entering it raised.
CopyEntered ==
    \E t \in Tasks :
        /\ ConcFrame
        /\ k_kind = "copy" /\ k_pc[t] \in {"src_enter", "dst_enter"}
        /\ LET loc == k_local[Slot(t)]
           IN IF plan[loc.cur].kind = k_pc[t]
              THEN TaskRaise(t, loc, ErrorOf(k_pc[t]))
              ELSE IF k_pc[t] = "src_enter"
              THEN Resume(t, "dst_enter", [loc EXCEPT !.open = @ \cup {"src"}])
              ELSE Resume(t, "run", [loc EXCEPT !.open = @ \cup {"dst"}])
        /\ k_err' = [k_err EXCEPT ![t] = IF k_pc'[t] = "raised" THEN k_local'[Slot(t)].exc ELSE @]
        /\ UNCHANGED <<k_out, k_committed>>

\* A task's ChunkedIOManager().run(src, dst) has returned or raised.
CopyRan ==
    \E t \in Tasks :
        /\ ConcFrame
        /\ k_kind = "copy" /\ k_pc[t] = "run"
        /\ LET loc == k_local[Slot(t)]
           IN IF plan[loc.cur].kind = "run"
              THEN TaskRaise(t, loc, ErrorOf("run"))
              ELSE Resume(t, "commit", loc)
        /\ UNCHANGED <<k_out, k_err, k_committed>>

\* A task's dst.commit() has returned or raised.
CopyCommitReturned ==
    \E t \in Tasks :
        /\ ConcFrame
        /\ k_kind = "copy" /\ k_pc[t] = "commit"
        /\ LET loc == k_local[Slot(t)]
           IN IF plan[loc.cur].kind = "commit"
              THEN /\ Resume(t, "dst_exit", [loc EXCEPT !.exc = ErrorOf("commit")])
                   /\ UNCHANGED k_committed
              ELSE /\ Resume(t, "dst_exit", loc)
                   /\ k_committed' = [k_committed EXCEPT ![t] = @ \cup {loc.cur}]
        /\ UNCHANGED <<k_out, k_err>>

\* A task's destination, then its source, is exited; after the source the
\* exception in flight leaves the call or the loop goes on.
CopyExited ==
    \E t \in Tasks :
        /\ ConcFrame
        /\ k_kind = "copy" /\ k_pc[t] \in {"dst_exit", "src_exit"}
        /\ LET loc == k_local[Slot(t)]
           IN IF k_pc[t] = "dst_exit"
              THEN /\ Resume(t, "src_exit", [loc EXCEPT !.open = @ \ {"dst"}])
                   /\ UNCHANGED k_err
              ELSE LET left == [loc EXCEPT !.open = @ \ {"src"}]
                   IN IF AfterBlob(loc.exc) = "raised"
                      THEN /\ Resume(t, "raised", left)
                           /\ k_err' = [k_err EXCEPT ![t] = loc.exc]
                      ELSE /\ TaskForNext(t, left, loc.ctxs)
                           /\ UNCHANGED k_err
        /\ UNCHANGED <<k_out, k_committed>>

ConcNext ==
    \/ WalkInvoke
    \/ WalkPageReturned
    \/ CopyInvoke
    \/ CopyUploadPrepared
    \/ CopyEntered
    \/ CopyRan
    \/ CopyCommitReturned
    \/ CopyExited

SpecConc == ConcInit /\ [][ConcNext]_vars

\* ------------------------------------- properties of interleaved tasks
\* What read_pages_from_api(func, u, l) returns when run alone, from offset o
\* with acc collected.
RECURSIVE WalkAlone(_, _, _, _)
WalkAlone(u, l, o, acc) ==
    LET page == FetchPage(o, l)
        got  == Extend(acc, page)
    IN IF ShortPage(page, l) \/ CapReached(u, got)
       THEN got
       ELSE WalkAlone(u, l, NextOffset(o, l), got)

\* The exception copy_object_data(ids) raises when run alone (NoExc: none).
RECURSIVE CopyError(_)
CopyError(ids) ==
    IF ids = <<>> THEN NoExc
    ELSE LET k == plan[Head(ids)].kind
         IN IF k = "none" THEN CopyError(Tail(ids))
            ELSE IF k \in {"upload_none", "upload_many"} THEN "ValueError"
            ELSE ErrorOf(k)

\* The summaries agree with the single walk and the single copy.
WalkAloneAgrees ==
    ppc = "done" => returned = <<WalkAlone(up_to, limit, 0, <<>>)>>

CopyErrorAgrees ==
    (Terminal /\ cancelAt = NoCancel) => exc = CopyError(data_identifiers)

Finished(t) == k_pc[t] \in {"done", "raised"}

\* Each finished task has the result of a run alone.
SameAsAlone ==
    \A t \in Tasks :
        Finished(t) =>
            IF k_kind = "walk"
            THEN k_out[t] = <<WalkAlone(k_args[t].up_to, k_args[t].limit, 0, <<>>)>>
            ELSE /\ k_committed[t] = CopyResult(k_args[t].ids)
                 /\ k_err[t] = CopyError(k_args[t].ids)
                 /\ (k_pc[t] = "raised") = (k_err[t] # NoExc)
                 /\ k_local[t].open = {}

\* A step changes the position, locals, result and effects of one task only.
OwnStateOnly ==
    \E t \in Tasks :
        \A u \in Tasks \ {t} :
            /\ k_pc'[u] = k_pc[u]
            /\ k_local'[u] = k_local[u]
            /\ k_out'[u] = k_out[u]
            /\ k_err'[u] = k_err[u]
            /\ k_committed'[u] = k_committed[u]

\* C19: when two page walks, or two blob copies, run as interleaved tasks,
\* every step changes only the offset, accumulator, descriptors and result of
\* the task that takes it, and each task that finishes has the result it has
\* when run alone against the same collaborator: a walk returns the same
\* items, a copy commits the same blobs and ends the same way.
C19_TasksDoNotInterfere == []SameAsAlone /\ [][OwnStateOnly]_vars

C19_Witness ==
    /\ k_kind = "walk"
    /\ k_overlap
    /\ \A t \in Tasks : k_pc[t] = "done" /\ Len(k_out[t][1]) > 1
    /\ k_out["a"] # k_out["b"]
    /\ k_args["a"].limit # k_args["b"].limit

\* Two copies of overlapping lists have finished after running interleaved,
\* one ended at a failing blob, the other returned.
CopiesInterleaved ==
    /\ k_kind = "copy"
    /\ k_overlap
    /\ k_pc["a"] = "raised" /\ k_committed["a"] # {}
    /\ k_pc["b"] = "done" /\ k_committed["b"] # {}


\* ------------------------------ further properties of read_pages_from_api
\* C21: against a faithful window over a collection nobody changes meanwhile
\* and whose size is a positive exact multiple of limit, with up_to unset or
\* larger than the total, a walk that has returned made exactly
\* total/limit + 1 func calls, the last of which returned no item, and
\* returned the whole collection.
C21_ExactMultipleCostsOneEmptyFetch ==
    ( /\ ppc = "done"
      /\ Faithful /\ Undisturbed
      /\ total > 0 /\ total % limit = 0
      /\ (up_to = <<>> \/ up_to[1] > total) ) =>
        /\ Len(calls) = (total \div limit) + 1
        /\ Len(pages) = Len(calls)
        /\ pages[Len(pages)] = <<>>
        /\ \A n \in 1..(Len(pages) - 1) : Len(pages[n]) = limit
        /\ returned = <<Collection>>

C21_Witness ==
    /\ ppc = "done"
    /\ Faithful /\ Undisturbed
    /\ limit > 1 /\ total > limit /\ total % limit = 0
    /\ up_to = <<>>
    /\ Len(calls) = (total \div limit) + 1
    /\ pages[Len(pages)] = <<>>
    /\ returned = <<Collection>>

\* C26: a walk called with up_to = 0 that has returned gives what the walk
\* with up_to unset gives: the cap never ended it, its last page was short or
\* empty, and against a faithful window on a collection nobody changes
\* meanwhile it returned the whole collection.
C26_ZeroIsUnset ==
    (ppc = "done" /\ up_to = <<0>>) =>
        /\ returned = <<Flatten(pages)>>
        /\ ShortPage(pages[Len(pages)], limit)
        /\ \A n \in 1..(Len(pages) - 1) : ~ShortPage(pages[n], limit)
        /\ Undisturbed => returned = <<WalkAlone(<<>>, limit, 0, <<>>)>>
        /\ (Faithful /\ Undisturbed) => returned = <<Collection>>

C26_Witness ==
    /\ ppc = "done" /\ up_to = <<0>>
    /\ Faithful /\ Undisturbed
    /\ Len(pages) > 2
    /\ Len(returned[1]) = total
    /\ total > limit


\* C27: against a faithful window whose calls all return, the walk eventually
\* returns, whatever the collection, the limit and up_to, and over a
\* collection nobody changes meanwhile it makes at most
\* floor(total/limit) + 1 func calls.
C27_WalkTerminates ==
    /\ []((Faithful /\ failAt = 0 /\ Undisturbed) =>
            Len(calls) <= (total \div limit) + 1)
    /\ (Faithful /\ failAt = 0) ~> (ppc = "done")

C27_Witness ==
    /\ ppc = "done"
    /\ Faithful /\ failAt = 0 /\ Undisturbed
    /\ up_to # <<>> /\ up_to[1] > total
    /\ total > limit
    /\ Len(calls) = (total \div limit) + 1


\* ------------------ extract_data_references, one step of `recurse` at a time
\* The value a recursive call made from the i-th item of obj is on.
Descend_Self(obj, i) == obj

Descend(obj, i) == obj.kids[i]

\* The frame of a call of `recurse` on obj, before its loop has taken an item.
Frame(obj) == [obj |-> obj, i |-> 1]

Top == frames[Len(frames)]

\* The top call has nothing left to do: its value is a scalar, or its loop
\* has taken every item.
Exhausted(f) == f.obj.t \notin {"dict", "list"} \/ f.i > Len(f.obj.kids)

RecInit ==
    /\ CopyIdle
    /\ PagesIdle
    /\ SnapIdle
    /\ LookupIdle
    /\ ConcIdle
    /\ object_dict \in Trees
    /\ data_values = <<>>
    /\ results = <<>>
    /\ frames = <<>>
    /\ rpc = "entry"

\* extract_data_references is called: `data_values = []`, `recurse(object_dict)`.
RecCall ==
    /\ RecFrame
    /\ rpc = "entry"
    /\ data_values' = NewDataValues(data_values)
    /\ frames' = <<Frame(object_dict)>>
    /\ rpc' = "running"
    /\ UNCHANGED <<object_dict, results>>

\* The loop of the top call takes a `data` key with a string value.
RecEmit ==
    /\ RecFrame
    /\ rpc = "running" /\ frames # <<>> /\ ~Exhausted(Top)
    /\ Top.obj.t = "dict" /\ IsDataRef(Top.obj.keys[Top.i], Top.obj.kids[Top.i])
    /\ data_values' = Emit(data_values, Top.obj.kids[Top.i].v)
    /\ frames' = [frames EXCEPT ![Len(frames)].i = @ + 1]
    /\ UNCHANGED <<object_dict, results, rpc>>

\* The loop of the top call takes any other item: `recurse(value)`.
RecDescend ==
    /\ RecFrame
    /\ rpc = "running" /\ frames # <<>> /\ ~Exhausted(Top)
    /\ ~(Top.obj.t = "dict" /\ IsDataRef(Top.obj.keys[Top.i], Top.obj.kids[Top.i]))
    /\ frames' = Append([frames EXCEPT ![Len(frames)].i = @ + 1],
                        Frame(Descend(Top.obj, Top.i)))
    /\ UNCHANGED <<object_dict, data_values, results, rpc>>

\* The top call returns: its value is a scalar or its loop is over.
RecReturn ==
    /\ RecFrame
    /\ rpc = "running" /\ frames # <<>> /\ Exhausted(Top)
    /\ frames' = SubSeq(frames, 1, Len(frames) - 1)
    /\ UNCHANGED <<object_dict, data_values, results, rpc>>

\* `return data_values`
RecDone ==
    /\ RecFrame
    /\ rpc = "running" /\ frames = <<>>
    /\ rpc' = "returned"
    /\ results' = Append(results, data_values)
    /\ UNCHANGED <<object_dict, data_values, frames>>

RecNext ==
    \/ RecCall
    \/ RecEmit
    \/ RecDescend
    \/ RecReturn
    \/ RecDone

\* Nothing suspends `recurse`: it runs on until it returns.
SpecRec == RecInit /\ [][RecNext]_vars /\ WF_vars(RecNext)

\* ----------------------------------------- properties of the recursion
RECURSIVE Size(_), SizeOfAll(_)
Size(t) == 1 + SizeOfAll(t.kids)
SizeOfAll(ts) == IF ts = <<>> THEN 0 ELSE Size(Head(ts)) + SizeOfAll(Tail(ts))

\* Every call is on the item its caller's loop has just taken.
CallsOnItems ==
    \A k \in 1..(Len(frames) - 1) :
        /\ frames[k].i > 1
        /\ frames[k + 1].obj = frames[k].obj.kids[frames[k].i - 1]
        /\ Size(frames[k + 1].obj) < Size(frames[k].obj)

\* A call on a scalar or on an empty container returns at once: it makes no
\* call and emits nothing.
LeafEnds ==
    (rpc = "running" /\ frames # <<>> /\ Top.obj.kids = <<>>) =>
        /\ frames' = SubSeq(frames, 1, Len(frames) - 1)
        /\ data_values' = data_values

\* The steps compute what Recurse computes.
StepsAgree ==
    rpc = "returned" => results = <<Recurse(object_dict, <<>>)>>

\* C22: on every finite tree extract_data_references returns: each call of
\* `recurse` is on an item of its caller's value, hence on a strictly smaller
\* value, so the stack is never deeper than the tree is large; and a call on
\* a scalar or on an empty container returns without calling or emitting.
C22_RecursionTerminates ==
    /\ [](CallsOnItems /\ Len(frames) <= Size(object_dict))
    /\ [][LeafEnds]_vars
    /\ <>(rpc = "returned")

C22_Witness ==
    /\ rpc = "returned"
    /\ Size(object_dict) > 3
    /\ object_dict.t = "dict"
    /\ \E i \in DOMAIN object_dict.kids :
         /\ object_dict.kids[i].t = "list"
         /\ \E j \in DOMAIN object_dict.kids[i].kids :
              object_dict.kids[i].kids[j].t = "dict"
              /\ object_dict.kids[i].kids[j].kids = <<>>
    /\ Len(data_values) > 0


\* -------------------------------- further properties of copy_object_data
BlobsBefore(b) == { e \in Range(data_identifiers) : Pos(e) < Pos(b) }

\* C28: at every point at most one source and at most one destination are
\* open, both of the blob the loop is on; and a blob whose source or
\* destination was ever opened comes after blobs that were all opened,
\* committed and released: blobs are taken one at a time in list order.
C28_OneBlobAtATime ==
    /\ Cardinality(srcOpen) <= 1 /\ Cardinality(dstOpen) <= 1
    /\ srcOpen \cup dstOpen \subseteq {cur}
    /\ \A b \in everSrc \cup everDst :
         \A e \in BlobsBefore(b) :
             /\ e \in everSrc /\ e \in everDst
             /\ e \in committed
             /\ e \notin srcOpen \cup dstOpen

C28_Witness ==
    /\ cpc = "run"
    /\ BlobsBefore(cur) # {}
    /\ srcOpen = {cur} /\ dstOpen = {cur}
    /\ committed = BlobsBefore(cur)
    /\ written[cur] > 0

BadReplies == {"upload_none", "upload_many"}

\* C29: one upload preparation is requested per download context taken; and
\* for a blob whose preparation yields no upload context or more than one,
\* no source or destination is ever opened, no chunk is written and no
\* commit is invoked: once the reply is unpacked the call has failed.
C29_ExactlyOneUploadContext ==
    /\ cur # 0 => nPrepUpload = Pos(cur)
    /\ \A b \in Blobs :
         plan[b].kind \in BadReplies =>
             /\ b \notin everSrc \cup everDst \cup commitCalls \cup committed
             /\ written[b] = 0
             /\ (cur = b /\ cpc # "prepare_data_upload") =>
                    cpc = "raised" /\ exc \in {"ValueError", "CancelledError"}

C29_Witness ==
    /\ cpc = "raised"
    /\ exc = "ValueError"
    /\ plan[cur].kind = "upload_many"
    /\ BlobsBefore(cur) # {}
    /\ committed = BlobsBefore(cur)


\* ------------------ further properties of evo_create_workspace_snapshot
\* C23: when ensure_initialized, get_object_client, get_workspace or
\* list_all_objects raises, nothing is issued after the failing call, no
\* object is recorded, no manifest is returned, and the tool ends raising
\* that call's own error (or the cancellation that came first).
C23_SetupFailurePropagates ==
    fatalAt # "none" =>
        /\ manifest = <<>> /\ objects_snapshot = <<>>
        /\ xpc \notin {"done", "download"}
        /\ \A i \in DOMAIN ops : ops[i].op = fatalAt => i = Len(ops)
        /\ (xpc = "raised" /\ xcancelAt = NoCancel) => xerr = fatalAt

C23_Witness ==
    /\ fatalAt = "list_all_objects"
    /\ xpc = "raised" /\ xerr = "list_all_objects"
    /\ xcancelAt = NoCancel
    /\ ops[Len(ops)].op = "list_all_objects"
    /\ manifest = <<>>

\* C24: the manifest returned lists the enumerated objects one for one, in
\* enumeration order, whether or not their scan failed, and object_count
\* and total_objects are the length of that list.
C24_OneSummaryPerObject ==
    xpc = "done" =>
        /\ Len(Returned.objects) = Len(all_objects)
        /\ \A i \in DOMAIN all_objects :
             /\ Returned.objects[i].id = all_objects[i].id
             /\ Returned.objects[i].version_id = all_objects[i].version_id
        /\ Returned.object_count = Len(Returned.objects)
        /\ Returned.total_objects = Len(Returned.objects)

C24_Witness ==
    /\ xpc = "done" /\ include_data_blobs
    /\ Len(all_objects) > 1
    /\ outcome[1].kind = "ok"
    /\ outcome[Len(all_objects)].kind = "AsDictError"
    /\ Returned.object_count = Len(all_objects)

\* The downloads issued so far, in the order issued.
Downloads == SelectSeq(ops, LAMBDA o : o.op = "download_object_by_id")

\* C25: a summary carries data_blobs exactly when include_data_blobs was
\* requested; without it nothing is downloaded; with it the downloads
\* issued are, in order, one per enumerated object and for the version the
\* enumeration listed, and all of them were issued once the tool returns.
C25_OneDownloadPerObjectWhenRequested ==
    /\ \A i \in DOMAIN objects_snapshot :
         objects_snapshot[i].has_data_blobs = include_data_blobs
    /\ ~include_data_blobs => Downloads = <<>>
    /\ Len(Downloads) <= Len(all_objects)
    /\ \A k \in DOMAIN Downloads :
         Downloads[k] = Op("download_object_by_id", all_objects[k].id,
                           ListedVersion(all_objects[k].id))
    /\ (xpc = "done" /\ include_data_blobs) => Len(Downloads) = Len(all_objects)

C25_Witness ==
    /\ xpc = "done" /\ include_data_blobs
    /\ Len(Downloads) > 1
    /\ Downloads[Len(Downloads)].version = ListedVersion(Len(all_objects))
    /\ \A i \in DOMAIN Returned.objects : Returned.objects[i].has_data_blobs

\* C30: a cancellation delivered while a download is awaited leaves the
\* tool as CancelledError: the object being downloaded is not recorded, no
\* further download is issued and no manifest is returned.
C30_CancellationIsNotAbsorbed ==
    xcancelAt = "download" =>
        /\ xpc = "raised" /\ xerr = "CancelledError"
        /\ manifest = <<>>
        /\ \A i \in DOMAIN objects_snapshot : objects_snapshot[i].id # current.id
        /\ Len(Downloads) = Len(objects_snapshot) + 1
        /\ Downloads[Len(Downloads)].id = current.id

C30_Witness ==
    /\ xcancelAt = "download"
    /\ xpc = "raised" /\ xerr = "CancelledError"
    /\ todo # <<>>
    /\ current.id < Len(all_objects)

====
